---- MODULE Spec2Model ----
(***************************************************************************)
(* Finance Tracker (src/App.tsx): the growth projection, the AreaChart's   *)
(* coordinate mapping and hover state machine, and the App's accounts,     *)
(* transactions and portfolio modal.                                       *)
(*                                                                         *)
(* Four specifications share the variables:                                *)
(*   SpecProj   projectGrowth applied to bounded inputs                    *)
(*   SpecChart  one AreaChart instance given a well-formed series set      *)
(*   SpecProps  one AreaChart instance given any series prop               *)
(*   Spec       the App component (which mounts the AreaChart in a modal)  *)
(***************************************************************************)
EXTENDS Integers, Sequences, FiniteSets, TLC

VARIABLES
  accounts,            \* App: useState<Account[]>            (App.tsx:186)
  transactions,        \* App: useState<Transaction[]>        (App.tsx:190)
  showTxModal,         \* App: useState(false)                (App.tsx:198)
  newTx,               \* App: the add-transaction form       (App.tsx:199)
  showPortfolioModal,  \* App: useState(false)                (App.tsx:236)
  hoverYearIndex,      \* App: useState<number|null>(null)    (App.tsx:253)
  uuidCount,           \* number of ids crypto.randomUUID() has handed out
  series,              \* SpecChart: the series prop of the AreaChart
  hoverI,              \* AreaChart: useState<number|null>(null) (App.tsx:60)
  lastEvent,           \* the last handler that ran, with its input
  clockYear,           \* the ambient clock: new Date().getFullYear()
  pgArgs,              \* SpecProj: the arguments of projectGrowth
  pgResult             \* SpecProj: what projectGrowth returned

vars == <<accounts, transactions, showTxModal, newTx, showPortfolioModal,
          hoverYearIndex, uuidCount, series, hoverI, lastEvent, clockYear,
          pgArgs, pgResult>>

appVars   == <<accounts, transactions, showTxModal, newTx, showPortfolioModal, uuidCount>>
projVars  == <<pgArgs, pgResult>>

(***************************************************************************)
(* JavaScript numbers.  A number is a rational n/d in lowest terms         *)
(* (k = "fin"), NaN, or +/-Infinity (k = "inf", n = sign); null has the    *)
(* same record shape so that a number|null can be compared with either.    *)
(* Rounding of IEEE doubles and the sign of zero are not modelled.         *)
(***************************************************************************)
Abs(i) == IF i < 0 THEN -i ELSE i

Sign(i) == IF i < 0 THEN -1 ELSE IF i > 0 THEN 1 ELSE 0

RECURSIVE Gcd(_, _)
Gcd(a, b) == IF b = 0 THEN a ELSE Gcd(b, a % b)

Fin(n, d) ==
  LET g == Gcd(Abs(n), Abs(d))
      s == IF d < 0 THEN -1 ELSE 1
  IN  [k |-> "fin", n |-> s * (n \div g), d |-> s * (d \div g)]

Num(i) == [k |-> "fin", n |-> i, d |-> 1]

NaN == [k |-> "nan", n |-> 0, d |-> 0]

Inf(s) == [k |-> "inf", n |-> s, d |-> 0]

null == [k |-> "null", n |-> 0, d |-> 0]

isNaN(a) == a.k = "nan"

jsSign(a) == Sign(a.n)

\* a + b
jsAdd(a, b) ==
  IF isNaN(a) \/ isNaN(b) THEN NaN
  ELSE IF a.k = "inf" /\ b.k = "inf" THEN (IF a.n = b.n THEN a ELSE NaN)
  ELSE IF a.k = "inf" THEN a
  ELSE IF b.k = "inf" THEN b
  ELSE Fin(a.n * b.d + b.n * a.d, a.d * b.d)

jsNeg(a) == IF a.k = "fin" \/ a.k = "inf" THEN [a EXCEPT !.n = -a.n] ELSE a

\* a - b
jsSub(a, b) == jsAdd(a, jsNeg(b))

\* a * b
jsMul(a, b) ==
  IF isNaN(a) \/ isNaN(b) THEN NaN
  ELSE IF a.k = "inf" \/ b.k = "inf"
       THEN (IF jsSign(a) * jsSign(b) = 0 THEN NaN ELSE Inf(jsSign(a) * jsSign(b)))
  ELSE Fin(a.n * b.n, a.d * b.d)

\* a / b
jsDiv(a, b) ==
  IF isNaN(a) \/ isNaN(b) THEN NaN
  ELSE IF a.k = "inf" THEN (IF b.k = "inf" THEN NaN
                            ELSE Inf(a.n * (IF b.n < 0 THEN -1 ELSE 1)))
  ELSE IF b.k = "inf" THEN Num(0)
  ELSE IF b.n = 0 THEN (IF a.n = 0 THEN NaN ELSE Inf(Sign(a.n)))
  ELSE Fin(a.n * b.d, a.d * b.n)

\* a <= b  (false when either is NaN)
jsLE(a, b) ==
  /\ ~isNaN(a) /\ ~isNaN(b)
  /\ IF a.k = "inf" THEN (a.n = -1 \/ a = b)
     ELSE IF b.k = "inf" THEN b.n = 1
     ELSE a.n * b.d <= b.n * a.d

\* Math.max(a, b), Math.min(a, b)
MathMax(a, b) == IF isNaN(a) \/ isNaN(b) THEN NaN ELSE IF jsLE(a, b) THEN b ELSE a

MathMin(a, b) == IF isNaN(a) \/ isNaN(b) THEN NaN ELSE IF jsLE(a, b) THEN a ELSE b

\* Math.round(a): the nearest integer, halves rounded up
MathRound(a) == IF a.k = "fin" THEN Num((2 * a.n + a.d) \div (2 * a.d)) ELSE a

\* a || b on numbers: 0 and NaN are falsy
jsOr(a, b) == IF isNaN(a) \/ (a.k = "fin" /\ a.n = 0) THEN b ELSE a

\* a ?? b
jsNullish(a, b) == IF a = null THEN b ELSE a

(***************************************************************************)
(* projectGrowth (App.tsx:30-38).  The loop runs y = 0, 1, ... while       *)
(* y <= years; iteration y first updates v (when y > 0) and then pushes    *)
(* {year: new Date().getFullYear() + y, value: v}.  The clock is read as   *)
(* one ambient value for the duration of the call.                         *)
(*                                                                         *)
(* An array keeps its 0-based indices: [length, at |-> [0..n-1 -> element]]*)
(* with length the one-point function 0 :> n, read as arr.length[0]: TLC   *)
(* then evaluates only the elements a formula reads (the values of a       *)
(* 10-year projection of an account balance exceed its integers).          *)
(***************************************************************************)
\* the number of iterations of  for (let y=0; y<=years; y++)  from y on
RECURSIVE pgIterations(_, _)
pgIterations(y, years) == IF y <= years THEN 1 + pgIterations(y + 1, years) ELSE 0

\* a slip: contribution added after the growth instead of before it
RECURSIVE pgValueAddAfter(_, _, _, _)
pgValueAddAfter(start, yearlyAdd, rate, y) ==
  IF y > 0
  THEN jsAdd(jsMul(pgValueAddAfter(start, yearlyAdd, rate, y - 1), jsAdd(Num(1), rate)),
             yearlyAdd)
  ELSE start

\* the value of v when iteration y pushes its point
RECURSIVE pgValue(_, _, _, _)
pgValue(start, yearlyAdd, rate, y) ==
  IF y > 0
  THEN jsMul(jsAdd(pgValue(start, yearlyAdd, rate, y - 1), yearlyAdd), jsAdd(Num(1), rate))
  ELSE start

projectGrowth(start, yearlyAdd, years, rate) ==
  LET n == pgIterations(0, years)
  IN  [length |-> [z \in {0} |-> n],
       at |-> [j \in 0 .. n - 1 |->
                 [year |-> clockYear + j, value |-> pgValue(start, yearlyAdd, rate, j)]]]

(***************************************************************************)
(* AreaChart (App.tsx:41-168).  `ser` is the series prop: an array of       *)
(* {name, points}; each points array holds {year, value}.                   *)
(***************************************************************************)
W == 900

H == 320

P == 30

\* const years = series[0].points.map(p=>p.year);  only years.length is used
\* by the mapping and the handlers
yearsLength(ser) == ser.at[0].points.length[0]

\* Math.max(...all) for all = series.flatMap(s=>s.points.map(p=>p.value)),
\* folded from series s, point i on; Math.max() of nothing is -Infinity
RECURSIVE maxFrom(_, _, _)
maxFrom(ser, s, i) ==
  IF s >= ser.length[0] THEN Inf(-1)
  ELSE IF i >= ser.at[s].points.length[0] THEN maxFrom(ser, s + 1, 0)
  ELSE MathMax(ser.at[s].points.at[i].value, maxFrom(ser, s, i + 1))

min == Num(0)

\* const max = Math.max(...all) * 1.05 || 1;
max(ser) == jsOr(jsMul(maxFrom(ser, 0, 0), Fin(105, 100)), Num(1))

\* a slip: x divides by the number of points instead of the number of intervals
xOverLength(ser, i) ==
  jsAdd(Num(P), jsMul(jsDiv(Num(i), Num(yearsLength(ser))), Num(W - 2 * P)))

\* const x = (i:number)=> P + (i/(years.length-1))*(W-2*P);
x(ser, i) ==
  jsAdd(Num(P), jsMul(jsDiv(Num(i), Num(yearsLength(ser) - 1)), Num(W - 2 * P)))

\* the denominator of y:  max-min||1
yDenominator(ser) == jsOr(jsSub(max(ser), min), Num(1))

\* const y = (v:number)=> H-P - (v-min)/(max-min||1)*(H-2*P);
y(ser, v) ==
  jsSub(Num(H - P), jsMul(jsDiv(jsSub(v, min), yDenominator(ser)), Num(H - 2 * P)))

\* a slip: t scaled by the number of points instead of the last index
moveIndexByLength(ser, mx) ==
  LET innerLeft == Num(P)
      innerRight == Num(W - P)
      clamped == MathMax(innerLeft, MathMin(innerRight, mx))
      t == jsDiv(jsSub(clamped, innerLeft), jsSub(innerRight, innerLeft))
  IN  MathRound(jsMul(t, Num(yearsLength(ser))))

\* a slip: mx is not clamped to the inner band
moveIndexUnclamped(ser, mx) ==
  LET innerLeft == Num(P)
      innerRight == Num(W - P)
      t == jsDiv(jsSub(mx, innerLeft), jsSub(innerRight, innerLeft))
  IN  MathRound(jsMul(t, Num(yearsLength(ser) - 1)))

\* handleMove's idx for mx = e.clientX - rect.left   (App.tsx:66-70)
moveIndex(ser, mx) ==
  LET innerLeft == Num(P)
      innerRight == Num(W - P)
      clamped == MathMax(innerLeft, MathMin(innerRight, mx))
      t == jsDiv(jsSub(clamped, innerLeft), jsSub(innerRight, innerLeft))
  IN  MathRound(jsMul(t, Num(yearsLength(ser) - 1)))

\* a slip: a move while hovering keeps the index of the earlier move
handleMoveKeepFirst(ser, mx) ==
  /\ hoverI' = IF hoverI = null THEN moveIndex(ser, mx) ELSE hoverI
  /\ hoverYearIndex' = IF hoverI = null THEN moveIndex(ser, mx) ELSE hoverI

\* handleMove (App.tsx:62-73); svgRef.current is set while the chart is
\* mounted.  onHoverIndexChange is the observer: the App passes
\* setHoverYearIndex.
handleMove(ser, mx) ==
  /\ hoverI' = moveIndex(ser, mx)
  /\ hoverYearIndex' = moveIndex(ser, mx)

\* a slip: the observer is not told about the leave
handleLeaveSilent ==
  /\ hoverI' = null
  /\ hoverYearIndex' = hoverYearIndex

\* handleLeave (App.tsx:74-77)
handleLeave ==
  /\ hoverI' = null
  /\ hoverYearIndex' = null

\* const legendIndex = hoverI ?? (years.length - 1);
legendIndex(ser) == jsNullish(hoverI, Num(yearsLength(ser) - 1))

\* the left position of the tooltip, in viewBox units (App.tsx:134)
tooltipLeft(ser) ==
  jsAdd(Num(P), jsMul(jsDiv(hoverI, Num(yearsLength(ser) - 1)), Num(W - 2 * P)))

\* s.points[i] is an element, not undefined
pointExists(points, i) ==
  /\ i.k = "fin" /\ i.d = 1
  /\ 0 <= i.n /\ i.n < points.length[0]

\* the render of the AreaChart throws a TypeError: series[0] is undefined
\* (App.tsx:48), or s.points[hoverI] is undefined at a hover dot or a tooltip
\* row (App.tsx:115, 150), or s.points[legendIndex] is undefined at a legend
\* entry (App.tsx:162).  The function validates nothing before it draws.
renderThrows(ser) ==
  \/ ser.length[0] = 0
  \/ \E s \in 0 .. ser.length[0] - 1 :
       \/ hoverI # null /\ ~pointExists(ser.at[s].points, hoverI)
       \/ ~pointExists(ser.at[s].points, legendIndex(ser))

\* what the caller of the AreaChart gets: the drawing, or the exception out
\* of the render; no path of the function returns a validation failure
renderOutcome(ser) == IF renderThrows(ser) THEN "TypeError" ELSE "drawn"

(***************************************************************************)
(* SpecProj: projectGrowth applied to inputs drawn from bounded sets.       *)
(***************************************************************************)
MaxHorizon == 3

StartValues == {Num(-100), Num(0), Num(1000)}

Contributions == {Num(0), Num(50)}

Rates == {Fin(4, 100), Fin(1, 2), Fin(-1, 2), Num(0)}

ClockYears == {2025, 2026}

PgInputs == [start : StartValues, yearlyAdd : Contributions,
             years : 0 .. MaxHorizon, rate : Rates]

NotCalled == [length |-> [z \in {0} |-> -1], at |-> << >>]

\* the App's initial state (App.tsx:186-201, 236); the specifications that
\* do not run the App leave it as it is
AppInitial ==
  /\ accounts = << [id |-> "acc1", name |-> "Robinhood", type |-> "Brokerage", balance |-> 10000],
                   [id |-> "acc2", name |-> "Chase", type |-> "Checking", balance |-> 5000] >>
  /\ transactions =
       << [id |-> "t1", description |-> "Initial Balance", category |-> "Setup",
           amount |-> 10000, accountId |-> "acc1"],
          [id |-> "t2", description |-> "Initial Balance", category |-> "Setup",
           amount |-> 5000, accountId |-> "acc2"] >>
  /\ showTxModal = FALSE
  /\ newTx = [desc |-> "", category |-> "", amount |-> "", accountId |-> "acc1"]
  /\ showPortfolioModal = FALSE
  /\ uuidCount = 0

InitProj ==
  /\ AppInitial
  /\ hoverYearIndex = null
  /\ series = << >>
  /\ hoverI = null
  /\ lastEvent = [type |-> "none", mx |-> null]
  /\ clockYear \in ClockYears
  /\ pgArgs \in PgInputs
  /\ pgResult = NotCalled

CallProjectGrowth ==
  /\ pgResult = NotCalled
  /\ pgResult' = projectGrowth(pgArgs.start, pgArgs.yearlyAdd, pgArgs.years, pgArgs.rate)
  /\ UNCHANGED <<appVars, hoverYearIndex, series, hoverI, lastEvent, clockYear, pgArgs>>

NextCall ==
  /\ pgResult # NotCalled
  /\ pgArgs' \in PgInputs
  /\ pgResult' = NotCalled
  /\ UNCHANGED <<appVars, hoverYearIndex, series, hoverI, lastEvent, clockYear>>

NextProj == CallProjectGrowth \/ NextCall

SpecProj == InitProj /\ [][NextProj]_vars

\* C1: projectGrowth returns exactly years+1 points; point 0 has the starting
\* value and the current year; for every y in 1..years, point y has value
\* (value of point y-1 + yearlyAdd) * (1 + rate) and year current year + y.
C1_ProjectGrowthRecurrence ==
  pgResult # NotCalled =>
    /\ pgResult.length[0] = pgArgs.years + 1
    /\ DOMAIN pgResult.at = 0 .. pgArgs.years
    /\ pgResult.at[0].value = pgArgs.start
    /\ pgResult.at[0].year = clockYear
    /\ \A j \in 1 .. pgArgs.years :
         /\ pgResult.at[j].value =
              jsMul(jsAdd(pgResult.at[j - 1].value, pgArgs.yearlyAdd),
                    jsAdd(Num(1), pgArgs.rate))
         /\ pgResult.at[j].year = clockYear + j

C1_Witness ==
  /\ pgResult # NotCalled
  /\ pgArgs.years = MaxHorizon
  /\ pgArgs.yearlyAdd = Num(50)
  /\ pgArgs.rate = Fin(4, 100)
  /\ pgArgs.start = Num(1000)
  /\ pgResult.at[1].value = Num(1092)

(***************************************************************************)
(* SpecChart: one mounted AreaChart whose series prop is drawn from the    *)
(* well-formed series sets of up to MaxPoints points, receiving pointer    *)
(* events.  hoverYearIndex is the observer's copy of the index.  A chart    *)
(* whose render threw is not on the page (the App has no error boundary),  *)
(* so the handlers run only while the render succeeds.                     *)
(***************************************************************************)
MaxPoints == 4

SeriesCounts == {1, 2}

ChartValues == {Num(0), Num(100)}

SeriesNames == <<"Conservative", "Moderate", "Aggressive">>

PointArrays(n) ==
  { [length |-> [z \in {0} |-> n],
     at |-> [i \in 0 .. n - 1 |-> [year |-> 2025 + i, value |-> v[i]]]] :
      v \in [0 .. n - 1 -> ChartValues] }

SeriesSets(c, n) ==
  { [length |-> [z \in {0} |-> c],
     at |-> [s \in 0 .. c - 1 |-> [name |-> SeriesNames[s + 1], points |-> ps[s]]]] :
      ps \in [0 .. c - 1 -> PointArrays(n)] }

ChartSeriesSets == UNION { SeriesSets(c, n) : c \in SeriesCounts, n \in 1 .. MaxPoints }

\* pointer positions mx = e.clientX - rect.left: outside and on the edges of
\* the inner band, every x(k) that is a number, and the points halfway
\* between neighbouring x(k) and one unit to their left; the svg is as wide as
\* its container (width="100%"), so mx can be far to the right of W
PointerXs(ser) ==
  LET n == yearsLength(ser)
      xs == { x(ser, k) : k \in 0 .. n - 1 }
      mids == { jsDiv(jsAdd(x(ser, k), x(ser, k + 1)), Num(2)) : k \in 0 .. n - 2 }
  IN  { m \in xs \cup mids \cup { jsSub(m, Num(1)) : m \in mids } : m.k = "fin" }
        \cup { Num(-10), Num(0), Num(P), Num(W - P), Num(W), Num(2 * W) }

InitChart ==
  /\ AppInitial
  /\ hoverYearIndex = null
  /\ series \in ChartSeriesSets
  /\ hoverI = null
  /\ lastEvent = [type |-> "none", mx |-> null]
  /\ clockYear = 2025
  /\ pgArgs = [start |-> Num(0), yearlyAdd |-> Num(0), years |-> 0, rate |-> Num(0)]
  /\ pgResult = NotCalled

ChartMove ==
  /\ ~renderThrows(series)
  /\ \E mx \in PointerXs(series) :
       /\ handleMove(series, mx)
       /\ lastEvent' = [type |-> "move", mx |-> mx]
  /\ UNCHANGED <<appVars, series, clockYear, pgArgs, pgResult>>

ChartLeave ==
  /\ ~renderThrows(series)
  /\ handleLeave
  /\ lastEvent' = [type |-> "leave", mx |-> null]
  /\ UNCHANGED <<appVars, series, clockYear, pgArgs, pgResult>>

NextChart == ChartMove \/ ChartLeave

SpecChart == InitChart /\ [][NextChart]_vars

\* C8: hover round trip: for every index k in 0..N-1, a pointer-move whose
\* horizontal position is exactly x(k) sets the hover index to k.
C8_HoverRoundTrip ==
  lastEvent.type = "move" =>
    \A k \in 0 .. yearsLength(series) - 1 :
      lastEvent.mx = x(series, k) => hoverI = Num(k)

C8_Witness ==
  /\ lastEvent.type = "move"
  /\ yearsLength(series) = 4
  /\ lastEvent.mx = x(series, 2)
  /\ hoverI = Num(2)

\* C9: x(i) is monotonically non-decreasing in i over 0..N-1, and for every
\* N > 1, x(0) = P and x(N-1) = W-P.
C9_XMonotoneEndpoints ==
  LET n == yearsLength(series)
  IN  /\ \A i, j \in 0 .. n - 1 : i < j => jsLE(x(series, i), x(series, j))
      /\ n > 1 => x(series, 0) = Num(P) /\ x(series, n - 1) = Num(W - P)

C9_Witness ==
  /\ yearsLength(series) = 4
  /\ x(series, 1) = Num(310)
  /\ x(series, 3) = Num(870)

\* C10: the mappings never divide by zero: with a single point (N = 1) x(0)
\* is defined and equals P; when max equals min the y mapping divides by 1;
\* max is floored to 1 when every value is zero.
C10_NoDivisionByZero ==
  /\ yearsLength(series) = 1 => x(series, 0) = Num(P)
  /\ max(series) = min => yDenominator(series) = Num(1)
  /\ maxFrom(series, 0, 0) = Num(0) => max(series) = Num(1)

\* C13: the pointer handlers are last-write-wins and idempotent: after any
\* sequence of pointer-move and pointer-leave events the hover index, in the
\* chart and as notified to the observer, is the one the last event alone
\* gives (so the same event delivered again gives the same state).
C13_LastWriteWins ==
  /\ lastEvent.type = "move" =>
       /\ hoverI = moveIndex(series, lastEvent.mx)
       /\ hoverYearIndex = moveIndex(series, lastEvent.mx)
  /\ lastEvent.type = "leave" => hoverI = null /\ hoverYearIndex = null

C13_Witness ==
  /\ lastEvent.type = "move"
  /\ yearsLength(series) = 2
  /\ lastEvent.mx = Num(450)
  /\ hoverI = Num(1)
  /\ hoverYearIndex = Num(1)

\* C15: in every reachable state the hover index, in the chart and as passed
\* to the observer, is none or an integer in 0..N-1, wherever the pointer is
\* (left of P and right of W-P included).
C15_HoverIndexInRange ==
  \A h \in {hoverI, hoverYearIndex} :
    \/ h = null
    \/ /\ h.k = "fin" /\ h.d = 1
       /\ 0 <= h.n /\ h.n <= yearsLength(series) - 1

C15_Witness ==
  /\ lastEvent.type = "move"
  /\ lastEvent.mx = Num(2 * W)
  /\ yearsLength(series) = 3
  /\ hoverI = Num(2)
  /\ hoverYearIndex = Num(2)

(***************************************************************************)
(* SpecProps: one AreaChart given any series prop its type allows: a list  *)
(* of 0, 1 or 2 series, each with 0..MaxPoints points, the counts free to  *)
(* differ.  The pointer events are those of SpecChart.                     *)
(***************************************************************************)
AnyPointArrays == UNION { PointArrays(n) : n \in 0 .. MaxPoints }

AnySeriesSets ==
  UNION { { [length |-> [z \in {0} |-> c],
             at |-> [s \in 0 .. c - 1 |->
                       [name |-> SeriesNames[s + 1], points |-> ps[s]]]] :
              ps \in [0 .. c - 1 -> AnyPointArrays] } : c \in 0 .. 2 }

InitProps ==
  /\ AppInitial
  /\ hoverYearIndex = null
  /\ series \in AnySeriesSets
  /\ hoverI = null
  /\ lastEvent = [type |-> "none", mx |-> null]
  /\ clockYear = 2025
  /\ pgArgs = [start |-> Num(0), yearlyAdd |-> Num(0), years |-> 0, rate |-> Num(0)]
  /\ pgResult = NotCalled

SpecProps == InitProps /\ [][NextChart]_vars

pointCounts(ser) == { ser.at[s].points.length[0] : s \in 0 .. ser.length[0] - 1 }

shortestCount(ser) == CHOOSE n \in pointCounts(ser) : \A m \in pointCounts(ser) : n <= m

\* C11: when the series have differing point counts, the chart either
\* rejects the input or uses the shortest series' length as N, so that the
\* point at the hover index (when hovering) and at the idle legend index
\* exists in every series.
C11_DifferingCountsHandled ==
  Cardinality(pointCounts(series)) > 1 =>
    \/ renderOutcome(series) = "rejected"
    \/ /\ yearsLength(series) = shortestCount(series)
       /\ \A s \in 0 .. series.length[0] - 1 :
            /\ pointExists(series.at[s].points, legendIndex(series))
            /\ hoverI # null => pointExists(series.at[s].points, hoverI)

\* C12: an empty series list is reported to the caller as a validation
\* failure before any rendering; it never surfaces as an exception thrown
\* while drawing.
C12_EmptySeriesRejected ==
  series.length[0] = 0 => renderOutcome(series) = "rejected"

(***************************************************************************)
(* App (App.tsx:181-379).  accounts and transactions are arrays of         *)
(* records, modelled as sequences in array order; amounts and balances are *)
(* whole numbers.  A transaction's date (todayISO()) is not modelled.  The *)
(* left-nav tab only decides which view shows the delete buttons and can   *)
(* be switched at any time, so delete is offered in every state.           *)
(***************************************************************************)
years == 10

MaxAdds == 1

\* what crypto.randomUUID() returns on its 1st, 2nd, ... call
UUIDs == <<"uuid-1", "uuid-2", "uuid-3", "uuid-4">>

\* what the user can type into the add-transaction form
DescInputs == {"", "  ", " Rent "}

CategoryInputs == {"", " Food "}

AmountInputs == {"", "abc", "-200", "300"}

\* String.prototype.trim on the strings above
trim(str) ==
  CASE str = "  " -> ""
    [] str = " Rent " -> "Rent"
    [] str = " Food " -> "Food"
    [] OTHER -> str

\* Number(str) on the strings above: Number("") is 0, Number("abc") is NaN
Number(str) ==
  CASE str = "" -> Num(0)
    [] str = "-200" -> Num(-200)
    [] str = "300" -> Num(300)
    [] OTHER -> NaN

RECURSIVE SeqSum(_)
SeqSum(q) == IF q = << >> THEN 0 ELSE Head(q) + SeqSum(Tail(q))

\* a slip: every account counts as invested
investedBalanceAllAccounts ==
  SeqSum([i \in 1 .. Len(accounts) |-> accounts[i].balance])

\* accounts.filter(a=>a.type==="Brokerage").reduce((s,a)=>s+a.balance,0)
investedBalance ==
  LET brokerage == SelectSeq(accounts, LAMBDA a : a.type = "Brokerage")
  IN  SeqSum([i \in 1 .. Len(brokerage) |-> brokerage[i].balance])

conservative == projectGrowth(Num(investedBalance), Num(0), years, Fin(4, 100))

moderate == projectGrowth(Num(investedBalance), Num(0), years, Fin(6, 100))

aggressive == projectGrowth(Num(investedBalance), Num(0), years, Fin(9, 100))

\* the series prop the App passes to the AreaChart (App.tsx:334-338)
AppSeries ==
  [length |-> [z \in {0} |-> 3],
   at |-> [s \in 0 .. 2 |->
             [name |-> SeriesNames[s + 1],
              points |-> IF s = 0 THEN conservative
                         ELSE IF s = 1 THEN moderate ELSE aggressive]]]

\* const legendI = hoverYearIndex ?? years;
legendI == jsNullish(hoverYearIndex, Num(years))

\* const lastIdx = Math.min(Math.max(legendI, 0), conservative.length-1);
lastIdx == MathMin(MathMax(legendI, Num(0)), Num(conservative.length[0] - 1))

Init ==
  /\ AppInitial
  /\ hoverYearIndex = null
  /\ series = << >>
  /\ hoverI = null
  /\ lastEvent = [type |-> "none", mx |-> null]
  /\ clockYear = 2025
  /\ pgArgs = [start |-> Num(0), yearlyAdd |-> Num(0), years |-> 0, rate |-> Num(0)]
  /\ pgResult = NotCalled

chartVars == <<hoverYearIndex, hoverI, lastEvent>>

fixedVars == <<series, clockYear, pgArgs, pgResult>>

\* "+ Add Transaction" (App.tsx:280)
OpenTxModal ==
  /\ ~showTxModal
  /\ showTxModal' = TRUE
  /\ UNCHANGED <<accounts, transactions, newTx, showPortfolioModal, uuidCount,
                 chartVars, fixedVars>>

\* the backdrop or Cancel (App.tsx:306, 320)
CloseTxModal ==
  /\ showTxModal
  /\ showTxModal' = FALSE
  /\ UNCHANGED <<accounts, transactions, newTx, showPortfolioModal, uuidCount,
                 chartVars, fixedVars>>

\* the form's inputs (App.tsx:309-318); the select offers the accounts
EditNewTx ==
  /\ showTxModal
  /\ \/ \E v \in DescInputs : newTx' = [newTx EXCEPT !.desc = v]
     \/ \E v \in CategoryInputs : newTx' = [newTx EXCEPT !.category = v]
     \/ \E v \in AmountInputs : newTx' = [newTx EXCEPT !.amount = v]
     \/ \E i \in 1 .. Len(accounts) : newTx' = [newTx EXCEPT !.accountId = accounts[i].id]
  /\ newTx' # newTx
  /\ UNCHANGED <<accounts, transactions, showTxModal, showPortfolioModal, uuidCount,
                 chartVars, fixedVars>>

\* a slip: the transaction is listed and the balance is left alone
addTransactionKeepBalance ==
  LET amt == Number(newTx.amount)
      tx == [id |-> UUIDs[uuidCount + 1],
             description |-> trim(newTx.desc),
             category |-> IF trim(newTx.category) = "" THEN "General"
                          ELSE trim(newTx.category),
             amount |-> amt.n,
             accountId |-> newTx.accountId]
  IN  IF trim(newTx.desc) = "" \/ isNaN(amt)
      THEN UNCHANGED <<accounts, transactions, showTxModal, newTx, uuidCount>>
      ELSE /\ uuidCount' = uuidCount + 1
           /\ transactions' = <<tx>> \o transactions
           /\ accounts' = accounts
           /\ showTxModal' = FALSE
           /\ newTx' = [desc |-> "", category |-> "", amount |-> "", accountId |-> "acc1"]

\* a slip: the amount is not checked for NaN
addTransactionAnyAmount ==
  LET amt == Number(newTx.amount)
      tx == [id |-> UUIDs[uuidCount + 1],
             description |-> trim(newTx.desc),
             category |-> IF trim(newTx.category) = "" THEN "General"
                          ELSE trim(newTx.category),
             amount |-> amt.n,
             accountId |-> newTx.accountId]
  IN  IF trim(newTx.desc) = ""
      THEN UNCHANGED <<accounts, transactions, showTxModal, newTx, uuidCount>>
      ELSE /\ uuidCount' = uuidCount + 1
           /\ transactions' = <<tx>> \o transactions
           /\ accounts' = [i \in 1 .. Len(accounts) |->
                             IF accounts[i].id = newTx.accountId
                             THEN [accounts[i] EXCEPT !.balance = @ + amt.n]
                             ELSE accounts[i]]
           /\ showTxModal' = FALSE
           /\ newTx' = [desc |-> "", category |-> "", amount |-> "", accountId |-> "acc1"]

\* addTransaction (App.tsx:203-222), the modal's Add button
addTransaction ==
  LET amt == Number(newTx.amount)
      tx == [id |-> UUIDs[uuidCount + 1],
             description |-> trim(newTx.desc),
             category |-> IF trim(newTx.category) = "" THEN "General"
                          ELSE trim(newTx.category),
             amount |-> amt.n,
             accountId |-> newTx.accountId]
  IN  IF trim(newTx.desc) = "" \/ isNaN(amt)
      THEN UNCHANGED <<accounts, transactions, showTxModal, newTx, uuidCount>>
      ELSE /\ uuidCount' = uuidCount + 1
           /\ transactions' = <<tx>> \o transactions
           /\ accounts' = [i \in 1 .. Len(accounts) |->
                             IF accounts[i].id = newTx.accountId
                             THEN [accounts[i] EXCEPT !.balance = @ + amt.n]
                             ELSE accounts[i]]
           /\ showTxModal' = FALSE
           /\ newTx' = [desc |-> "", category |-> "", amount |-> "", accountId |-> "acc1"]

\* the Add button of the open modal (App.tsx:321); lastEvent records the call,
\* whether or not it was accepted
AddTransaction ==
  /\ showTxModal
  /\ uuidCount < MaxAdds
  /\ addTransaction
  /\ lastEvent' = [type |-> "add", mx |-> null]
  /\ UNCHANGED <<showPortfolioModal, hoverYearIndex, hoverI, fixedVars>>

\* a slip: the transaction is removed and the balances are left alone
deleteTransactionKeepBalance(accs, prev, id) ==
  [accounts |-> accs, transactions |-> SelectSeq(prev, LAMBDA t : t.id # id)]

\* deleteTransaction (App.tsx:225-233) from accounts accs and transactions
\* prev: the updater finds tx in prev, has setAccounts subtract tx.amount
\* from the account of tx, and returns prev without tx.  React applies the
\* updater of a committed update once (a repeated development render starts
\* again from the committed state).
deleteTransaction(accs, prev, id) ==
  LET found == SelectSeq(prev, LAMBDA t : t.id = id)
  IN  IF found = << >>
      THEN [accounts |-> accs, transactions |-> prev]
      ELSE LET tx == Head(found)
           IN  [accounts |-> [i \in 1 .. Len(accs) |->
                                IF accs[i].id = tx.accountId
                                THEN [accs[i] EXCEPT !.balance = @ - tx.amount]
                                ELSE accs[i]],
                transactions |-> SelectSeq(prev, LAMBDA t : t.id # id)]

\* the delete button of a listed row (App.tsx:471, 572)
DeleteTransaction ==
  /\ \E i \in 1 .. Len(transactions) :
       LET after == deleteTransaction(accounts, transactions, transactions[i].id)
       IN  /\ accounts' = after.accounts
           /\ transactions' = after.transactions
  /\ UNCHANGED <<showTxModal, newTx, showPortfolioModal, uuidCount, chartVars, fixedVars>>

\* "View details" (App.tsx:291, 433): the modal mounts a new AreaChart,
\* whose hoverI starts as null (App.tsx:60)
OpenPortfolio ==
  /\ ~showPortfolioModal
  /\ showPortfolioModal' = TRUE
  /\ hoverI' = null
  /\ UNCHANGED <<accounts, transactions, showTxModal, newTx, uuidCount,
                 hoverYearIndex, lastEvent, fixedVars>>

\* the backdrop or Close (App.tsx:329, 372): the AreaChart unmounts and its
\* state is discarded; no handler of the chart runs
ClosePortfolio ==
  /\ showPortfolioModal
  /\ showPortfolioModal' = FALSE
  /\ hoverI' = null
  /\ UNCHANGED <<accounts, transactions, showTxModal, newTx, uuidCount,
                 hoverYearIndex, lastEvent, fixedVars>>

\* pointer positions over the mounted chart
AppPointerXs == {Num(282), Num(900)}

\* onMouseMove of the mounted chart (App.tsx:90)
PortfolioMove ==
  /\ showPortfolioModal
  /\ \E mx \in AppPointerXs : handleMove(AppSeries, mx)
  /\ lastEvent' = [type |-> "move", mx |-> null]
  /\ UNCHANGED <<appVars, fixedVars>>

\* onMouseLeave of the mounted chart (App.tsx:91)
PortfolioLeave ==
  /\ showPortfolioModal
  /\ handleLeave
  /\ lastEvent' = [type |-> "leave", mx |-> null]
  /\ UNCHANGED <<appVars, fixedVars>>

Next ==
  \/ OpenTxModal
  \/ CloseTxModal
  \/ EditNewTx
  \/ AddTransaction
  \/ DeleteTransaction
  \/ OpenPortfolio
  \/ ClosePortfolio
  \/ PortfolioMove
  \/ PortfolioLeave

Spec == Init /\ [][Next]_vars

\* the sum of the amounts of the listed transactions recorded on account id
listedAmount(id) ==
  LET on == SelectSeq(transactions, LAMBDA t : t.accountId = id)
  IN  SeqSum([i \in 1 .. Len(on) |-> on[i].amount])

\* C2: deleting a listed transaction removes exactly that transaction and
\* subtracts its amount exactly once from the balance of its account (and
\* changes no other balance); and deleting the transaction that an add has
\* just listed gives back the accounts and the list from before the add.
C2_DeleteReversesOnce ==
  [][/\ Len(transactions') < Len(transactions) =>
          \E i \in 1 .. Len(transactions) :
            /\ transactions' =
                 SelectSeq(transactions, LAMBDA t : t.id # transactions[i].id)
            /\ Len(transactions') = Len(transactions) - 1
            /\ accounts' = [k \in 1 .. Len(accounts) |->
                              IF accounts[k].id = transactions[i].accountId
                              THEN [accounts[k] EXCEPT
                                      !.balance = @ - transactions[i].amount]
                              ELSE accounts[k]]
     /\ Len(transactions') > Len(transactions) =>
          deleteTransaction(accounts', transactions', transactions'[1].id)
            = [accounts |-> accounts, transactions |-> transactions]]_vars

\* an added transaction has been deleted again, and so has t1
C2_Witness ==
  /\ uuidCount = 1
  /\ Len(transactions) = 1
  /\ transactions[1].id = "t2"
  /\ accounts[1].balance = 0
  /\ accounts[2].balance = 5000

\* C3: in every reachable state each account's balance equals the sum of the
\* amounts of the listed transactions whose accountId is that account.
C3_BalanceIsSumOfListed ==
  \A k \in 1 .. Len(accounts) : accounts[k].balance = listedAmount(accounts[k].id)

\* an add on acc2 and the delete of t1 have both been applied
C3_Witness ==
  /\ uuidCount = 1
  /\ Len(transactions) = 2
  /\ transactions[1].amount = -200
  /\ transactions[1].accountId = "acc2"
  /\ transactions[2].id = "t2"
  /\ accounts[1].balance = 0
  /\ accounts[2].balance = 4800

\* C4: after handleLeave the chart's hover index is none, the observer holds
\* none, and the legend and the stat cards read index N-1, the last point of
\* every series.
C4_LeaveResetsHover ==
  lastEvent.type = "leave" =>
    /\ hoverI = null
    /\ hoverYearIndex = null
    /\ lastIdx = Num(conservative.length[0] - 1)
    /\ showPortfolioModal =>
         \A s \in 0 .. AppSeries.length[0] - 1 :
           legendIndex(AppSeries) = Num(AppSeries.at[s].points.length[0] - 1)

C4_Witness ==
  /\ lastEvent.type = "leave"
  /\ showPortfolioModal
  /\ hoverI = null
  /\ legendIndex(AppSeries) = Num(10)
  /\ lastIdx = Num(10)

\* C5: when the series passed to the mounted chart change while it is
\* hovering, the chart goes to Idle (hover index none).
C5_SeriesChangeResetsHover ==
  [][(showPortfolioModal /\ hoverI # null /\ investedBalance' # investedBalance)
       => hoverI' = null]_vars

\* C6: whenever the portfolio modal is closed (the chart unmounted), the
\* parent's hover index is none, so a reopened modal starts in Idle.
C6_HoverResetOnUnmount == ~showPortfolioModal => hoverYearIndex = null

\* C7: while the chart is mounted the parent's hover index equals the
\* chart's, and the legend and the stat cards read the same index.
C7_ObserverInSync ==
  showPortfolioModal =>
    /\ hoverYearIndex = hoverI
    /\ legendIndex(AppSeries) = lastIdx

\* the sum of the balances of the accounts at the indices in S
RECURSIVE balanceOver(_)
balanceOver(S) ==
  IF S = {} THEN 0
  ELSE LET k == CHOOSE k \in S : TRUE
       IN  accounts[k].balance + balanceOver(S \ {k})

brokerageBalance ==
  balanceOver({ k \in 1 .. Len(accounts) : accounts[k].type = "Brokerage" })

\* the transactions that a step lists or unlists
changedTransactions ==
  LET before == { transactions[i] : i \in 1 .. Len(transactions) }
      after == { transactions'[i] : i \in 1 .. Len(transactions') }
  IN  (before \ after) \cup (after \ before)

accountType(id) ==
  LET k == CHOOSE k \in 1 .. Len(accounts) : accounts[k].id = id
  IN  accounts[k].type

\* C14: after any sequence of adds and deletes, point 0 of each of the three
\* projection series is the current invested balance, the sum of the
\* balances of exactly the Brokerage accounts; an add or a delete of a
\* transaction on a non-Brokerage account leaves the three series unchanged
\* (each is projectGrowth of the invested balance and the clock's year, so
\* it is unchanged when these and its point 0 are).
C14_SeriesStartAtInvestedBalance ==
  /\ [](/\ investedBalance = brokerageBalance
        /\ \A s \in 0 .. 2 :
             AppSeries.at[s].points.at[0].value = Num(brokerageBalance))
  /\ [][(/\ changedTransactions # {}
         /\ \A t \in changedTransactions : accountType(t.accountId) # "Brokerage")
        => /\ investedBalance' = investedBalance
           /\ clockYear' = clockYear
           /\ \A s \in 0 .. 2 :
                (AppSeries.at[s].points.at[0])' = AppSeries.at[s].points.at[0]]_vars

\* t2 (Checking) has been deleted and 300 added on acc1 (Brokerage)
C14_Witness ==
  /\ uuidCount = 1
  /\ accounts[1].balance = 10300
  /\ accounts[2].balance = 0
  /\ conservative.at[0].value = Num(10300)
  /\ moderate.at[0].value = Num(10300)
  /\ aggressive.at[0].value = Num(10300)

\* C16: addTransaction called with a description that is blank after
\* trimming, or with an amount that does not parse to a number, leaves the
\* transaction list, every balance, the modal's open state and the form
\* unchanged.
C16_RejectedAddChangesNothing ==
  [][(/\ lastEvent'.type = "add"
      /\ lastEvent.type # "add"
      /\ trim(newTx.desc) = "" \/ isNaN(Number(newTx.amount)))
     => /\ transactions' = transactions
        /\ accounts' = accounts
        /\ showTxModal' = showTxModal
        /\ newTx' = newTx]_vars

\* Add has been pressed on a form with a description and the amount "abc"
C16_Witness ==
  /\ lastEvent.type = "add"
  /\ uuidCount = 0
  /\ showTxModal
  /\ newTx.desc = " Rent "
  /\ newTx.amount = "abc"
  /\ Len(transactions) = 2
  /\ accounts[1].balance = 10000

====
